---- MODULE Spec2Model ----
(***************************************************************************)
(* Model of the pydra dashboards.                                          *)
(*   - DashboardServer (pydra/engine/dashboard_server.py): a caller thread *)
(*     persists workflow snapshots as <id>.json files (update_workflow),   *)
(*     the server thread polls the directory once a second                 *)
(*     (update -> load_workflow_data -> update_workflow_view -> update_dag)*)
(*   - Dashboard (pydra/engine/dashboard.py): the push dashboard, whose    *)
(*     update(task) overwrites task_status / task_details and whose        *)
(*     create_dag_plot / update_document recolour the DAG.                 *)
(* A Python dict is a function whose DOMAIN is its key set.                *)
(***************************************************************************)
EXTENDS Integers, Sequences, FiniteSets, TLC

VARIABLES
    files,        \* data_dir: file stem -> file content
    workflows,    \* DashboardServer.workflows (defaultdict(dict))
    now,          \* last value returned by datetime.now()
    wr,           \* caller thread inside update_workflow
    ld,           \* server thread inside load_workflow_data
    sel,          \* workflow_select: value and options
    view,         \* what update_workflow_view last rendered
    task_status,  \* Dashboard.task_status
    task_details, \* Dashboard.task_details
    upd,          \* the last Dashboard.update call: its task and status info
    dag,          \* Dashboard.doc and the colour column of its graph renderer
    run           \* self.server, self.thread and the caller inside stop(), per class

vars == <<files, workflows, now, wr, ld, sel, view,
          task_status, task_details, upd, dag, run>>
srvVars  == <<files, workflows, now, wr, ld, sel, view>>
dashVars == <<task_status, task_details, upd, dag>>

----------------------------------------------------------------------------
(* Bounds *)

MaxClock == 2

\* next-tick callbacks the document may hold at once
MaxPending == 2

\* the workflow the engine pushes with update_workflow, and a snapshot file
\* that another process keeps in the same directory
Pushed  == {"wf1"}
Dropped == {"wf3"}
WfIds   == Pushed \cup Dropped

----------------------------------------------------------------------------
(* Python dict helpers *)

Has(d, k) == k \in DOMAIN d

Put(d, k, v) == [f \in DOMAIN d \cup {k} |-> IF f = k THEN v ELSE d[f]]

EmptyDict == [f \in {} |-> 0]

Get(d, k, default) == IF Has(d, k) THEN d[k] ELSE default

\* the orders in which a directory listing may yield the entries of S
Orders(S) ==
    {o \in [1..Cardinality(S) -> S] : \A i, j \in DOMAIN o : o[i] = o[j] => i = j}

----------------------------------------------------------------------------
(* Payloads and snapshot files *)

Terminal == {"completed", "failed"}

TasksAB ==
    << [name |-> "A", status |-> "completed"],
       [name |-> "B", status |-> "running", dependencies |-> <<"A">>] >>

\* B depends on a task that the task list does not contain
TasksOrphan ==
    << [name |-> "B", status |-> "unknown", dependencies |-> <<"A">>] >>

Payloads ==
    { [status |-> "started", tasks |-> <<>>],
      [status |-> "completed", tasks |-> <<>>],
      [name |-> "wf", status |-> "running", tasks |-> TasksAB],
      [name |-> "wf", status |-> "failed", tasks |-> TasksOrphan],
      [name |-> "wf", status |-> "running", end_time |-> 0] }

\* file contents
Json(data) == [text |-> "json", data |-> data]
Garbage    == [text |-> "garbage"]   \* not JSON
Truncated  == [text |-> "empty"]        \* opened with mode 'w', nothing flushed yet

\* snapshot files placed in data_dir by something other than update_workflow
ExternalFiles ==
    { Garbage,
      Json([name |-> "wf", status |-> "completed", tasks |-> TasksAB]) }

Parses(content) == content.text = "json"

----------------------------------------------------------------------------
(* A process runs one of the two dashboards: both bind port 5006. *)

ServerUnused == /\ files = EmptyDict /\ workflows = EmptyDict /\ wr.id = ""
                /\ ld.pc = "idle" /\ ld.res = "none" /\ sel.value = ""
                /\ run.srv.thread = "none"
DashUnused   == task_status = EmptyDict

----------------------------------------------------------------------------
(* DashboardServer *)

\* update_workflow, lines 156-159: the time stamp written into data
Stamp(data, t) ==
    IF data.status = "started" THEN Put(data, "start_time", t)
    ELSE IF data.status \in Terminal THEN Put(data, "end_time", t)
    ELSE data

\* update_workflow up to file_path.open('w'): stamp, then truncate the file
\* t is the value datetime.now() returns
UpdateWorkflowOpen(w, data, t) ==
    /\ DashUnused
    /\ wr.pc = "idle"
    /\ t >= now
    /\ now' = t
    /\ wr' = [pc |-> "dump", id |-> w, arg |-> data, data |-> Stamp(data, t)]
    /\ files' = Put(files, w, Truncated)
    /\ ld' = [ld EXCEPT !.quiet = FALSE]
    /\ UNCHANGED <<workflows, sel, view>>
    /\ UNCHANGED dashVars
    /\ UNCHANGED run

\* json.dump(data, f) and the close of the with block
UpdateWorkflowClose ==
    /\ wr.pc = "dump"
    /\ files' = Put(files, wr.id, Json(wr.data))
    /\ wr' = [wr EXCEPT !.pc = "idle"]
    /\ ld' = [ld EXCEPT !.quiet = FALSE]
    /\ UNCHANGED <<workflows, now, sel, view>>
    /\ UNCHANGED dashVars
    /\ UNCHANGED run

\* another process drops a file into data_dir
ExternalWrite(w, content) ==
    /\ DashUnused
    /\ ~(wr.pc = "dump" /\ wr.id = w)
    /\ files' = Put(files, w, content)
    /\ ld' = [ld EXCEPT !.quiet = FALSE]
    /\ UNCHANGED <<workflows, now, wr, sel, view>>
    /\ UNCHANGED dashVars
    /\ UNCHANGED run

\* external cleanup of the snapshot directory removes a file
DeleteFile(w) ==
    /\ DashUnused
    /\ Has(files, w)
    /\ ~(wr.pc = "dump" /\ wr.id = w)
    /\ files' = [f \in DOMAIN files \ {w} |-> files[f]]
    /\ ld' = [ld EXCEPT !.quiet = FALSE]
    /\ UNCHANGED <<workflows, now, wr, sel, view>>
    /\ UNCHANGED dashVars
    /\ UNCHANGED run

\* load_workflow_data, line 167: self.data_dir.glob('*.json') lists the directory
\* (the first statement of the periodic callback update, line 36)
LoadBegin ==
    /\ DashUnused
    /\ run.srv.thread = "loop"
    /\ ld.pc = "idle"
    /\ \E o \in Orders(DOMAIN files) :
         ld' = [pc |-> "scan", todo |-> o, res |-> "none", quiet |-> TRUE, err |-> ""]
    /\ UNCHANGED <<files, workflows, now, wr, sel, view>>
    /\ UNCHANGED dashVars
    /\ UNCHANGED run

\* json.load(f): the parsed data, defined when the content parses
JsonLoad(content) == content.data

\* a store that refuses to take a workflow out of a terminal status
StoreForwardOnly(store, w, data) ==
    IF Has(store, w) /\ Has(store[w], "status") /\ store[w].status \in Terminal
       /\ data.status \notin Terminal
    THEN store
    ELSE Put(store, w, data)

\* a store kept in step with the directory: ids whose file is gone are dropped
StoreSnapshotPruned(store, w, data) ==
    [k \in (DOMAIN store \cap DOMAIN files) \cup {w} |->
        IF k = w THEN data ELSE store[k]]

\* self.workflows[file_path.stem] = data, line 170
StoreSnapshot(store, w, data) == Put(store, w, data)

\* lines 168-170 for the next listed file: a file that does not parse makes
\* json.load raise, a file removed since the listing makes open('r') raise, and
\* nothing catches either
LoadRead ==
    /\ ld.pc = "scan"
    /\ ld.todo # <<>>
    /\ LET w == Head(ld.todo) IN
         IF Has(files, w) /\ Parses(files[w])
         THEN /\ workflows' = StoreSnapshot(workflows, w, JsonLoad(files[w]))
              /\ ld' = [ld EXCEPT !.todo = Tail(ld.todo)]
         ELSE /\ workflows' = workflows
              /\ ld' = [ld EXCEPT !.pc = "idle", !.todo = <<>>, !.res = "raised",
                                  !.err = IF Has(files, w) THEN files[w].text
                                          ELSE "missing"]
    /\ UNCHANGED <<files, now, wr, sel, view>>
    /\ UNCHANGED dashVars
    /\ UNCHANGED run

----------------------------------------------------------------------------
(* The viewer: update_workflow_view and update_dag *)

RECURSIVE AddNodes(_, _)
\* G.add_node / G.add_edge keep the nodes in first-insertion order
AddNodes(nodes, names) ==
    IF names = <<>> THEN nodes
    ELSE AddNodes(IF \E i \in DOMAIN nodes : nodes[i] = Head(names)
                  THEN nodes ELSE Append(nodes, Head(names)),
                  Tail(names))

RECURSIVE EdgeEnds(_)
\* the nodes touched by G.add_edge(dep, task['name']), lines 68-70
EdgeEnds(tasks) ==
    IF tasks = <<>> THEN <<>>
    ELSE LET t == Head(tasks)
             deps == Get(t, "dependencies", <<>>)
         IN  (IF deps = <<>> THEN <<>> ELSE deps \o <<t.name>>) \o EdgeEnds(Tail(tasks))

\* list(G.nodes()), lines 64-70 and 81
GraphNodes(tasks) ==
    AddNodes(AddNodes(<<>>, [i \in DOMAIN tasks |-> tasks[i].name]), EdgeEnds(tasks))

\* color_map.get(status, 'gray'), lines 83-84
ServerColor(status) ==
    CASE status = "waiting"   -> "gray"
      [] status = "running"   -> "yellow"
      [] status = "completed" -> "green"
      [] status = "failed"    -> "red"
      [] status = "unknown"   -> "blue"
      [] OTHER                -> "gray"

\* task_source.data, lines 54-57
TaskTable(workflow) ==
    [Task   |-> [i \in DOMAIN workflow.tasks |-> workflow.tasks[i].name],
     Status |-> [i \in DOMAIN workflow.tasks |-> workflow.tasks[i].status]]

\* update_dag: the 'name' and 'color' columns of the node renderer
update_dag(workflow) ==
    [name  |-> GraphNodes(workflow.tasks),
     color |-> [i \in DOMAIN workflow.tasks |-> ServerColor(workflow.tasks[i].status)]]

\* the subscripts of update_workflow_view and update_dag that raise KeyError
ViewRaises(workflow) ==
    \/ ~Has(workflow, "name")
    \/ ~Has(workflow, "status")
    \/ ~Has(workflow, "tasks")
    \/ \E i \in DOMAIN workflow.tasks :
         ~Has(workflow.tasks[i], "name") \/ ~Has(workflow.tasks[i], "status")

\* self.workflows[workflow_id] on a defaultdict(dict), line 46
StoreAfterLookup(store, w) == IF Has(store, w) THEN store ELSE Put(store, w, EmptyDict)

\* update_workflow_view(workflow_id), lines 41-60: the view it leaves
ViewAfter(store, w, old) ==
    IF w = "" THEN old
    ELSE LET workflow == StoreAfterLookup(store, w)[w] IN
         IF ViewRaises(workflow)
         THEN [old EXCEPT !.res = "KeyError", !.id = w]
         ELSE [res |-> "ok", id |-> w, table |-> TaskTable(workflow)] @@ update_dag(workflow)

\* the viewer picks a value in workflow_select; on_change runs
\* update_workflow_view on the server thread (line 112)
SelectWorkflow(v) ==
    /\ DashUnused
    /\ run.srv.thread = "loop"
    /\ ld.pc = "idle"
    /\ sel' = [sel EXCEPT !.value = v]
    /\ workflows' = IF v = "" THEN workflows ELSE StoreAfterLookup(workflows, v)
    /\ view' = ViewAfter(workflows, v, view)
    /\ UNCHANGED <<files, now, wr, ld>>
    /\ UNCHANGED dashVars
    /\ UNCHANGED run

\* the listing is exhausted: load_workflow_data returns and update goes on
\* with lines 37-39
UpdateEnd ==
    /\ ld.pc = "scan"
    /\ ld.todo = <<>>
    /\ ld' = [ld EXCEPT !.pc = "idle", !.res = "ok"]
    /\ sel' = [sel EXCEPT !.options = {""} \cup DOMAIN workflows]
    /\ workflows' = IF sel.value = "" THEN workflows
                    ELSE StoreAfterLookup(workflows, sel.value)
    /\ view' = ViewAfter(workflows, sel.value, view)
    /\ UNCHANGED <<files, now, wr>>
    /\ UNCHANGED dashVars
    /\ UNCHANGED run

----------------------------------------------------------------------------
(* Dashboard (the push dashboard) *)

\* the nodes of workflow.graph, in graph order
TaskNames == <<"A", "B">>

Statuses == {"waiting", "running", "completed", "failed", "unknown"}

\* what task.get_status_info() may return
StatusInfos ==
    {[status |-> st] : st \in Statuses}
    \cup { [status |-> "running", inputs |-> "in"],
           [status |-> "completed", outputs |-> "out", runtime |-> "1s"],
           [status |-> "failed", error |-> "boom"] }

\* start(workflow), lines 27-29
DashStart ==
    /\ ServerUnused
    /\ task_status = EmptyDict
    /\ task_status' = [n \in {TaskNames[i] : i \in DOMAIN TaskNames} |-> "waiting"]
    /\ task_details' = [n \in {TaskNames[i] : i \in DOMAIN TaskNames} |-> EmptyDict]
    /\ run' = [run EXCEPT !.dash.server = TRUE, !.dash.thread = "new"]
    /\ UNCHANGED <<upd, dag>>
    /\ UNCHANGED srvVars

\* the keys of color_map, lines 76 and 162
DashPalette == {"waiting", "running", "completed", "failed"}

\* color_map[status], lines 76-77 and 162-163, for a status in the palette
DashColor(status) ==
    CASE status = "waiting"   -> "gray"
      [] status = "running"   -> "yellow"
      [] status = "completed" -> "green"
      [] status = "failed"    -> "red"

\* [color_map[self.task_status[task.name]] for task in graph.nodes()]:
\* the subscript raises KeyError for a status that is no key of color_map
DashColors(status) ==
    IF \E i \in DOMAIN TaskNames : status[TaskNames[i]] \notin DashPalette
    THEN [res |-> "KeyError"]
    ELSE [res |-> "ok", color |-> [i \in DOMAIN TaskNames |-> DashColor(status[TaskNames[i]])]]

\* list(self.task_status.values()), lines 99 and 170, in graph order
DashTable(status) == [i \in DOMAIN TaskNames |-> status[TaskNames[i]]]

\* a browser session opens: create_dashboard(doc), lines 32-34
CreateDashboard ==
    /\ task_status # EmptyDict
    /\ ~dag.doc
    /\ LET c == DashColors(task_status) IN
         dag' = [dag EXCEPT !.doc = TRUE, !.res = c.res,
                            !.color = IF c.res = "ok" THEN c.color ELSE dag.color,
                            !.table = IF c.res = "ok" THEN DashTable(task_status)
                                      ELSE dag.table]
    /\ UNCHANGED <<task_status, task_details, upd>>
    /\ UNCHANGED srvVars
    /\ UNCHANGED run

\* update(task), lines 127-151. With the RESOURCE audit flag set, line 134
\* reads the local name time before it is bound (line 141 makes it local) and
\* raises after lines 129-130 have run.
DashUpdate(name, status_info, audit) ==
    /\ task_status # EmptyDict
    /\ dag.pending < MaxPending
    /\ task_status' = Put(task_status, name, status_info.status)
    /\ task_details' = Put(task_details, name, status_info)
    /\ upd' = [task |-> name, info |-> status_info,
               res |-> IF audit THEN "UnboundLocalError" ELSE "ok"]
    /\ dag' = IF ~audit /\ dag.doc THEN [dag EXCEPT !.pending = dag.pending + 1] ELSE dag
    /\ UNCHANGED srvVars
    /\ UNCHANGED run

\* update_document, lines 153-171, run by the document's next tick
UpdateDocument ==
    /\ dag.pending > 0
    /\ LET c == DashColors(task_status) IN
         dag' = [dag EXCEPT !.pending = dag.pending - 1, !.res = c.res,
                            !.color = IF c.res = "ok" THEN c.color ELSE dag.color,
                            !.table = IF c.res = "ok" THEN DashTable(task_status)
                                      ELSE dag.table]
    /\ UNCHANGED <<task_status, task_details, upd>>
    /\ UNCHANGED srvVars
    /\ UNCHANGED run

----------------------------------------------------------------------------
(* start() and stop() of both classes *)

\* DashboardServer.start, lines 140-143: the daemon thread is created and started
SrvStart ==
    /\ DashUnused
    /\ run.srv.thread = "none"
    /\ run' = [run EXCEPT !.srv.thread = "new"]
    /\ UNCHANGED <<srvVars, dashVars>>

\* run_server, line 135: self.server = Server(...)
RunServerCreate ==
    /\ run.srv.thread = "new"
    /\ run' = [run EXCEPT !.srv.thread = "made", !.srv.server = TRUE]
    /\ UNCHANGED <<srvVars, dashVars>>

\* run_server, line 135, when Server(...) raises (the port is taken): the thread
\* ends and self.server stays None
RunServerFail ==
    /\ run.srv.thread = "new"
    /\ run' = [run EXCEPT !.srv.thread = "dead"]
    /\ UNCHANGED <<srvVars, dashVars>>

\* run_server, lines 136-138: self.server.start() and IOLoop.current().start(),
\* which returns only once the loop is stopped; no line of the class stops it
RunServerLoop ==
    /\ run.srv.thread = "made"
    /\ run' = [run EXCEPT !.srv.thread = "loop"]
    /\ UNCHANGED <<srvVars, dashVars>>

\* DashboardServer.stop, lines 146-148: with self.server set, self.server.stop
\* is queued on IOLoop.current() of the calling thread, a loop nobody runs
SrvStop ==
    /\ run.srv.thread # "none"
    /\ run.srv.stop = "idle"
    /\ run' = [run EXCEPT !.srv.stop = "join", !.srv.cb = run.srv.server]
    /\ UNCHANGED <<srvVars, dashVars>>

\* DashboardServer.stop, lines 149-151: self.thread.join() returns when the
\* thread has ended
SrvStopJoin ==
    /\ run.srv.stop = "join"
    /\ run.srv.thread = "dead"
    /\ run' = [run EXCEPT !.srv.stop = "returned"]
    /\ UNCHANGED <<srvVars, dashVars>>

\* the thread of Dashboard.start, line 62: self.server.io_loop.start()
DashThreadLoop ==
    /\ run.dash.thread = "new"
    /\ run' = [run EXCEPT !.dash.thread = "loop"]
    /\ UNCHANGED <<srvVars, dashVars>>

\* the same call when the caller is already running that loop (the Server took
\* the caller's IOLoop.current(), line 61): start() raises and the thread ends
DashThreadFail ==
    /\ run.dash.thread = "new"
    /\ run' = [run EXCEPT !.dash.thread = "dead"]
    /\ UNCHANGED <<srvVars, dashVars>>

\* Dashboard.stop, lines 174-175: self.server.stop() closes the HTTP server and
\* leaves the loop running
DashStop ==
    /\ run.dash.thread # "none"
    /\ run.dash.stop = "idle"
    /\ run' = [run EXCEPT !.dash.stop = "join", !.dash.stopped = TRUE]
    /\ UNCHANGED <<srvVars, dashVars>>

\* Dashboard.stop, lines 176-177: self.thread.join()
DashStopJoin ==
    /\ run.dash.stop = "join"
    /\ run.dash.thread = "dead"
    /\ run' = [run EXCEPT !.dash.stop = "returned"]
    /\ UNCHANGED <<srvVars, dashVars>>

Init ==
    /\ files = EmptyDict
    /\ workflows = EmptyDict
    /\ now = 0
    /\ wr = [pc |-> "idle", id |-> "", arg |-> EmptyDict, data |-> EmptyDict]
    /\ ld = [pc |-> "idle", todo |-> <<>>, res |-> "none", quiet |-> TRUE, err |-> ""]
    /\ sel = [value |-> "", options |-> {""}]
    /\ view = [res |-> "none", id |-> "", table |-> [Task |-> <<>>, Status |-> <<>>],
               name |-> <<>>, color |-> <<>>]
    /\ task_status = EmptyDict
    /\ task_details = EmptyDict
    /\ upd = [task |-> "", info |-> EmptyDict, res |-> "none"]
    /\ dag = [doc |-> FALSE, pending |-> 0, res |-> "none", color |-> <<>>,
              table |-> <<>>]
    /\ run = [srv  |-> [server |-> FALSE, thread |-> "none", stop |-> "idle",
                        cb |-> FALSE],
              dash |-> [server |-> FALSE, thread |-> "none", stop |-> "idle",
                        stopped |-> FALSE]]

\* the engine pushes to one dashboard or the other, another process drops
\* files, the server polls; nobody has picked a workflow in the selector
Next ==
    \/ \E w \in Pushed, data \in Payloads, t \in 0..MaxClock : UpdateWorkflowOpen(w, data, t)
    \/ UpdateWorkflowClose
    \/ \E w \in Dropped, c \in ExternalFiles : ExternalWrite(w, c)
    \/ \E w \in WfIds : DeleteFile(w)
    \/ SrvStart
    \/ RunServerCreate
    \/ RunServerFail
    \/ RunServerLoop
    \/ LoadBegin
    \/ LoadRead
    \/ UpdateEnd
    \/ DashStart
    \/ CreateDashboard
    \/ \E i \in DOMAIN TaskNames, info \in StatusInfos, audit \in BOOLEAN :
          DashUpdate(TaskNames[i], info, audit)
    \/ UpdateDocument
    \/ DashThreadLoop
    \/ DashThreadFail

Spec == Init /\ [][Next]_vars

\* the same with a viewer who picks workflows in the selector; the clock is too
\* coarse to tell the pushes apart
ViewNext ==
    \/ \E w \in Pushed, data \in Payloads : UpdateWorkflowOpen(w, data, now)
    \/ UpdateWorkflowClose
    \/ \E w \in Dropped, c \in ExternalFiles : ExternalWrite(w, c)
    \/ \E w \in WfIds : DeleteFile(w)
    \/ SrvStart
    \/ RunServerCreate
    \/ RunServerFail
    \/ RunServerLoop
    \/ LoadBegin
    \/ LoadRead
    \/ UpdateEnd
    \/ \E v \in WfIds \cup {""} : SelectWorkflow(v)
    \/ DashStart
    \/ CreateDashboard
    \/ \E i \in DOMAIN TaskNames, info \in StatusInfos, audit \in BOOLEAN :
          DashUpdate(TaskNames[i], info, audit)
    \/ UpdateDocument
    \/ DashThreadLoop
    \/ DashThreadFail

ViewSpec == Init /\ [][ViewNext]_vars

\* start-up, work and shutdown of either dashboard: its threads get to run,
\* the periodic callback keeps firing while its loop runs, a stop() that has
\* been entered goes on as soon as it can
LifeNext ==
    \/ \E w \in Pushed, data \in Payloads : UpdateWorkflowOpen(w, data, now)
    \/ UpdateWorkflowClose
    \/ SrvStart
    \/ RunServerCreate
    \/ RunServerFail
    \/ RunServerLoop
    \/ LoadBegin
    \/ LoadRead
    \/ UpdateEnd
    \/ SrvStop
    \/ SrvStopJoin
    \/ DashStart
    \/ CreateDashboard
    \/ \E i \in DOMAIN TaskNames, info \in StatusInfos, audit \in BOOLEAN :
          DashUpdate(TaskNames[i], info, audit)
    \/ UpdateDocument
    \/ DashThreadLoop
    \/ DashThreadFail
    \/ DashStop
    \/ DashStopJoin

LifeSpec ==
    /\ Init
    /\ [][LifeNext]_vars
    /\ WF_vars(RunServerCreate \/ RunServerFail)
    /\ WF_vars(RunServerLoop)
    /\ WF_vars(LoadBegin)
    /\ WF_vars(LoadRead)
    /\ WF_vars(UpdateEnd)
    /\ WF_vars(SrvStopJoin)
    /\ WF_vars(DashThreadLoop \/ DashThreadFail)
    /\ WF_vars(UpdateDocument)
    /\ WF_vars(DashStopJoin)

----------------------------------------------------------------------------
(* Properties *)

TimeFields == {"start_time", "end_time"}

NoTimes(d) == DOMAIN d \cap TimeFields = {}

\* a poll has run from its listing to its end (return or raise) and no file of
\* the directory was written since the listing
PollRanQuietly == ld.pc = "idle" /\ ld.res # "none" /\ ld.quiet

\* the server thread has just stored w's file (one step of LoadRead)
Loaded(w) ==
    /\ ld.pc = "scan" /\ ld.todo # <<>> /\ Head(ld.todo) = w
    /\ ld'.pc = "scan" /\ ld'.todo = Tail(ld.todo)
    /\ Has(workflows', w)

\* that file is the one the last finished update_workflow(w, wr.arg) wrote
LoadedPush(w) ==
    Loaded(w) /\ wr.pc = "idle" /\ wr.id = w /\ files[w] = Json(wr.data)

\* C1: a poll over a directory with valid and invalid files (none of them being
\* written meanwhile) returns without raising, and afterwards every valid file
\* is in the store with its contents.
C1_MalformedSkipped ==
    (PollRanQuietly /\ wr.pc = "idle") =>
        /\ ld.res = "ok"
        /\ \A w \in DOMAIN files :
             Parses(files[w]) => Has(workflows, w) /\ workflows[w] = files[w].data

\* C2: once the store holds the record of a pushed 'started' payload, reading
\* back a later pushed 'completed'/'failed' payload (neither payload carrying
\* time fields) leaves a record with start_time and end_time, end >= start.
C2_StartAndEnd ==
    [][\A w \in Pushed :
         ( /\ LoadedPush(w)
           /\ Has(workflows, w)
           /\ \E p \in Payloads, t \in 0..MaxClock :
                p.status = "started" /\ NoTimes(p) /\ workflows[w] = Stamp(p, t)
           /\ wr.arg.status \in Terminal /\ NoTimes(wr.arg) )
         => /\ Has(workflows'[w], "start_time")
            /\ Has(workflows'[w], "end_time")
            /\ workflows'[w].end_time >= workflows'[w].start_time]_vars

\* C3: an update merges: every field of the stored workflow record (of the
\* task's details) that the update does not set keeps its value.
C3_Merges ==
    [][ /\ \A w \in Pushed :
             (LoadedPush(w) /\ Has(workflows, w))
             => \A f \in DOMAIN workflows[w] \ DOMAIN wr.data :
                  Has(workflows'[w], f) /\ workflows'[w][f] = workflows[w][f]
        /\ \A n \in DOMAIN task_details :
             (upd'.task = n /\ task_details'[n] # task_details[n])
             => \A f \in DOMAIN task_details[n] \ DOMAIN upd'.info :
                  Has(task_details'[n], f) /\ task_details'[n][f] = task_details[n][f]
      ]_vars

\* C4: applying the same 'completed'/'failed' ('started') update again leaves
\* the stored end_time (start_time) at the value of the first application.
C4_StampIdempotent ==
    [][\A w \in Pushed :
         ( /\ LoadedPush(w)
           /\ Has(workflows, w)
           /\ \E t \in 0..MaxClock : workflows[w] = Stamp(wr.arg, t) )
         => /\ wr.arg.status \in Terminal
                 => workflows'[w].end_time = workflows[w].end_time
            /\ wr.arg.status = "started"
                 => workflows'[w].start_time = workflows[w].start_time]_vars

\* C5: every stored workflow has end_time iff its status is completed or failed.
C5_EndTimeIffTerminal ==
    \A w \in DOMAIN workflows :
        Has(workflows[w], "end_time")
        <=> (Has(workflows[w], "status") /\ workflows[w].status \in Terminal)

\* C6: after update_workflow(w, P) has persisted P and a poll has run, the
\* store's record for w is exactly the persisted snapshot.
C6_RoundTrip ==
    \A w \in Pushed :
        ( /\ wr.pc = "idle" /\ wr.id = w
          /\ Has(files, w) /\ files[w] = Json(wr.data)
          /\ PollRanQuietly )
        => Has(workflows, w) /\ workflows[w] = wr.data

\* the order of the statuses; 'started' is the workflow's word for running
Rank(st) ==
    CASE st = "waiting" -> 0
      [] st \in {"started", "running"} -> 1
      [] st \in Terminal -> 2

Ranked == {"waiting", "started", "running"} \cup Terminal

Forward(a, b) ==
    \/ a = b
    \/ a \notin Ranked \/ b \notin Ranked
    \/ Rank(a) < Rank(b)

\* C7 as stated: the stored status of a workflow or task never moves from a
\* later status to an earlier one and never leaves a terminal status.
C7_OnlyForward ==
    [][ /\ \A w \in DOMAIN workflows :
             (Has(workflows', w) /\ Has(workflows[w], "status")
              /\ Has(workflows'[w], "status"))
             => Forward(workflows[w].status, workflows'[w].status)
        /\ \A n \in DOMAIN task_status :
             Has(task_status', n) => Forward(task_status[n], task_status'[n])
      ]_vars

\* C7, amended: no order is enforced. A read of w's snapshot file stores the
\* status found in the file, Dashboard.update stores the status it is given,
\* and a stored status changes in no other way.
C7_StoresGivenStatus ==
    [][ /\ \A w \in WfIds :
             Loaded(w) => workflows'[w].status = files[w].data.status
        /\ \A w \in DOMAIN workflows' :
             (~Has(workflows, w) \/ workflows'[w] # workflows[w]) => Loaded(w)
        /\ upd'.res # "none" => task_status'[upd'.task] = upd'.info.status
        /\ \A n \in DOMAIN task_status :
             task_status'[n] # task_status[n] => upd'.task = n
      ]_vars

\* a backward move took place: A was drawn green (completed) and the update
\* that came after put it back to waiting
C7_Backward ==
    /\ dag.res = "ok" /\ dag.color[1] = "green"
    /\ upd.task = "A" /\ upd.info.status = "waiting"
    /\ task_status["A"] = "waiting"

\* C8: a poll that meets a file update_workflow is writing does not raise, and
\* what the store holds for a pushed workflow is always a whole snapshot.
C8_PollTolerates ==
    /\ ~(ld.res = "raised" /\ ld.err = "empty")
    /\ \A w \in Pushed \cap DOMAIN workflows :
         \E p \in Payloads, t \in 0..MaxClock : workflows[w] = Stamp(p, t)

\* the palette of the interface description
Palette(st) ==
    CASE st = "waiting"   -> "gray"
      [] st = "running"   -> "yellow"
      [] st = "completed" -> "green"
      [] st = "failed"    -> "red"
      [] st = "unknown"   -> "blue"

\* C9: both renderers give every node the palette colour of its task's status,
\* one colour per node, and do not fail on any of the five statuses.
C9_NodeColours ==
    /\ view.res = "ok" =>
         /\ Len(view.color) = Len(view.name)
         /\ \A i \in DOMAIN view.name, j \in DOMAIN view.table.Task :
              view.table.Task[j] = view.name[i]
              => i \in DOMAIN view.color
                 /\ view.color[i] = Palette(view.table.Status[j])
    /\ dag.res # "KeyError"
    /\ dag.res = "ok" =>
         /\ Len(dag.color) = Len(TaskNames)
         /\ \A i \in DOMAIN dag.color : dag.color[i] = Palette(dag.table[i])

\* C10: update_workflow_view(id) returns without an exception and leaves the
\* set of stored workflow ids as it was.
C10_LookupSafe ==
    [][ ( /\ ld.todo = <<>> /\ ld'.todo = <<>>
          /\ (view' # view \/ workflows' # workflows) )
        => /\ view'.res # "KeyError"
           /\ DOMAIN workflows' = DOMAIN workflows ]_vars

C12_StopReturns ==
    /\ (run.srv.stop = "join") ~> (run.srv.stop = "returned" /\ run.srv.thread = "dead")
    /\ (run.dash.stop = "join") ~> (run.dash.stop = "returned" /\ run.dash.thread = "dead")

\* stop() waits on a server thread whose loop is running
C12_StopWaitsOnLoop ==
    \/ run.srv.stop = "join" /\ run.srv.thread = "loop"
    \/ run.dash.stop = "join" /\ run.dash.thread = "loop"

====
